---- MODULE Spec2Model ----
(***************************************************************************)
(* Bulk CVAT task creation: cva_proj_multiprocess.py (worker pool) and     *)
(* cva_proj_slow.py (single sequential loop).                              *)
(*                                                                         *)
(* Text is modelled as a sequence of string chunks; f-string formatting is *)
(* concatenation of chunks.  A raw label string is a sequence of one-      *)
(* character chunks so that split(',') and strip() are computed.           *)
(***************************************************************************)
EXTENDS Integers, Sequences, FiniteSets, TLC

VARIABLES variant, readable, columns, nrows, cpus,
          pc, num_processes, taskqueue, workers, mapError, outcome, results,
          main, calls, handledBy, sincePause, injected,
          successFile, failureFile, writeLog,
          brec, bout

vars == <<variant, readable, columns, nrows, cpus,
          pc, num_processes, taskqueue, workers, mapError, outcome, results,
          main, calls, handledBy, sincePause, injected,
          successFile, failureFile, writeLog,
          brec, bout>>

inputVars == <<variant, readable, columns, nrows, cpus>>
buildVars == <<brec, bout>>
fileVars  == <<successFile, failureFile, writeLog>>
histVars  == <<handledBy, sincePause, injected>>

\* ---------------------------------------------------------------- bounds
MaxRows == 3
MaxLen  == 3

\* ------------------------------------------------------- program constants
PoolLimit == 4

None == [kind |-> "None"]

Min(a, b) == IF a <= b THEN a ELSE b
Range(s) == {s[k] : k \in DOMAIN s}

\* ------------------------------------------------------------ python str
Whitespace == {" ", "\t"}

RECURSIVE Split(_, _)
Split(s, sep) ==
    IF \E k \in 1..Len(s) : s[k] = sep
    THEN LET k == CHOOSE k \in 1..Len(s) :
                      s[k] = sep /\ \A j \in 1..(k-1) : s[j] # sep
         IN  <<SubSeq(s, 1, k-1)>> \o Split(SubSeq(s, k+1, Len(s)), sep)
    ELSE <<s>>

RECURSIVE LStrip(_)
LStrip(s) == IF s # <<>> /\ Head(s) \in Whitespace THEN LStrip(Tail(s)) ELSE s

RECURSIVE RStrip(_)
RStrip(s) == IF s # <<>> /\ s[Len(s)] \in Whitespace
             THEN RStrip(SubSeq(s, 1, Len(s) - 1)) ELSE s

Strip(s) == RStrip(LStrip(s))

\* --------------------------------------------------------- payload builder
\* the tokens taken as they are, without strip()
parse_labels_NoStrip(labels_str) ==
    LET toks == Split(labels_str, ",")
    IN  [k \in 1..Len(toks) |-> [name |-> toks[k]]]

parse_labels(labels_str) ==
    LET toks == Split(labels_str, ",")
    IN  [k \in 1..Len(toks) |-> [name |-> Strip(toks[k])]]

TextAttribute(n) ==
    [name |-> <<n>>, mutable |-> TRUE, input_type |-> "text",
     values |-> << <<>> >>, required |-> TRUE]

DescriptionLabel(v) ==
    IF v = "mp"
    THEN [name |-> <<"description">>,
          attributes |-> <<TextAttribute("Title"),
                           TextAttribute("Image_Description"),
                           TextAttribute("Scene_Description")>>]
    ELSE [name |-> <<"Descriptions">>,
          attributes |-> <<TextAttribute("Title"),
                           TextAttribute("English_Image_Description"),
                           TextAttribute("Scene_Description")>>]

AppendDescription(v, labels) == Append(labels, DescriptionLabel(v))

TaskName(id) == <<"Segmentation_", id>>

BuildTaskSpec(v, id, labels_str) ==
    [name   |-> TaskName(id),
     labels |-> AppendDescription(v, parse_labels(labels_str))]

\* ------------------------------------------------------------- input rows
IdOf(i) == "A" \o ToString(i)
UrlOf(i) == <<"https://img/", ToString(i)>>

StrCell(t) == [kind |-> "str", text |-> t]
NaNCell    == [kind |-> "float", text |-> <<>>]
LabelCells == {StrCell(<<"a", ",", " ", "b">>), NaNCell}

RequiredColumns == {"ID", "URL", "Labels"}

\* cpu_count() of the machines considered: below, at and above the pool limit
CpuCounts == {1, 2, 4, 8}

\* str(e) of the exceptions the row code can raise
KeyErrorText(col)  == <<"'", col, "'">>
AttributeErrorText == <<"'float' object has no attribute 'split'">>
RemoteErrorText    == <<"remote create failed">>

\* the remote service's answer: an opaque task id, distinct per task
TaskIdFor(i) == 100 + i

Success(id, tid) == [success |-> TRUE,  id |-> id, task_id |-> tid]
Failure(id, err) == [success |-> FALSE, id |-> id, error |-> err]

\* ------------------------------------------------------------ worker pool
\* the pool sized by the CPU count alone
NumProcesses_Unbounded(cpu_count) == cpu_count

NumProcesses(cpu_count) == Min(cpu_count, PoolLimit)

\* multiprocessing.Pool.map: chunksize, extra = divmod(len, 4 * processes)
Chunksize(n, p) ==
    IF n = 0 THEN 0
    ELSE IF n % (4 * p) = 0 THEN n \div (4 * p) ELSE (n \div (4 * p)) + 1

RECURSIVE ChunksFrom(_, _, _)
ChunksFrom(first, n, size) ==
    IF first > n THEN <<>>
    ELSE <<[k \in 1..(Min(n, first + size - 1) - first + 1) |-> first + k - 1]>>
         \o ChunksFrom(first + size, n, size)

MakeChunks(n, p) == ChunksFrom(1, n, Chunksize(n, p))

\* the submitting paths: the main loop and the pool's workers
Paths == 0..PoolLimit
MainPath == 0

IdleWorker == [pc |-> "idle", chunk |-> <<>>, req |-> None, task |-> 0]

\* ------------------------------------------------- one row, up to the call
Propagate(err) == [kind |-> "raise", err |-> err]
Return(value)  == [kind |-> "return", value |-> value]
Call(req)      == [kind |-> "call", req |-> req]

\* the except clause of create_single_task (lines 103-105): it reads
\* row['ID'], so it raises itself when row is not bound yet or the ID column
\* is absent
Handler(rowBound, i, err) ==
    IF ~rowBound
    THEN Propagate(<<"local variable 'row' referenced before assignment">>)
    ELSE IF "ID" \notin columns THEN Propagate(KeyErrorText("ID"))
    ELSE Return(Failure(IdOf(i), err))

CreateRequest(v, i, cell) ==
    [spec |-> BuildTaskSpec(v, IdOf(i), cell.text), resources |-> <<UrlOf(i)>>]

\* lines 50-92: everything create_single_task does before the remote call
RowPrelude(setupOk, cell, i) ==
    IF ~setupOk THEN Handler(FALSE, i, <<"client setup failed">>)
    ELSE IF "Labels" \notin columns THEN Handler(TRUE, i, KeyErrorText("Labels"))
    ELSE IF cell.kind # "str" THEN Handler(TRUE, i, AttributeErrorText)
    ELSE IF "ID" \notin columns THEN Handler(TRUE, i, KeyErrorText("ID"))
    ELSE IF "URL" \notin columns THEN Handler(TRUE, i, KeyErrorText("URL"))
    ELSE Call(CreateRequest("mp", i, cell))

\* the remote call's exception left uncaught
CreateFailed_Unhandled(i) == Propagate(RemoteErrorText)

\* the remote create call raised inside the try block
CreateFailed(i) == Handler(TRUE, i, RemoteErrorText)

\* which fault the environment put on a row before the remote call
FaultOf(setupOk, cell) ==
    IF ~setupOk THEN "setup"
    ELSE IF "Labels" \in columns /\ cell.kind # "str" THEN "labels"
    ELSE "none"

\* ------------------------------------------------------------------ state
Init ==
    /\ variant \in {"mp", "seq"}
    /\ readable \in BOOLEAN
    /\ columns \in SUBSET RequiredColumns
    /\ nrows \in 0..MaxRows
    /\ cpus \in CpuCounts
    /\ (~readable => (columns = RequiredColumns /\ nrows = 0))
    /\ pc = "start"
    /\ num_processes = 0
    /\ taskqueue = <<>>
    /\ workers = <<>>
    /\ mapError = None
    /\ outcome = [i \in 1..nrows |-> None]
    /\ results = <<>>
    /\ main = [pc |-> "idle", idx |-> 1]
    /\ calls = [i \in 1..nrows |-> 0]
    /\ handledBy = [i \in 1..nrows |-> {}]
    /\ sincePause = [p \in Paths |-> 0]
    /\ injected = [i \in 1..nrows |-> "pending"]
    /\ successFile = None
    /\ failureFile = None
    /\ writeLog = <<>>
    /\ brec = None
    /\ bout = <<>>

\* ------------------------------------------------- multiprocess variant
\* run(), lines 111-125: read the CSV, size the pool, hand the rows to map
LoadAndDispatch ==
    /\ variant = "mp" /\ pc = "start"
    /\ IF ~readable
       THEN /\ pc' = "raised"
            /\ UNCHANGED <<num_processes, workers, taskqueue>>
       ELSE /\ num_processes' = NumProcesses(cpus)
            /\ workers' = [w \in 1..NumProcesses(cpus) |-> IdleWorker]
            /\ taskqueue' = MakeChunks(nrows, NumProcesses(cpus))
            /\ pc' = "map"
    /\ UNCHANGED <<inputVars, mapError, outcome, results, main, calls,
                   histVars, fileVars, buildVars>>

\* the row that has just ended is kept and run again
RestOf_Retry(ch) == ch

\* the rows of a chunk still to be run once its first row has ended
RestOf(ch) == Tail(ch)

\* the task queue once a worker has taken its first chunk
Dequeue(q) == Tail(q)

\* a row ends in worker w: with a return value, kept for the chunk's result,
\* or with an exception, which ends the whole chunk (mapstar) and is kept as
\* the map's error
RowEnds(w, ch, i, r) ==
    IF r.kind = "return"
    THEN /\ workers' = [workers EXCEPT ![w] =
                [pc |-> "idle", chunk |-> RestOf(ch), req |-> None, task |-> 0]]
         /\ outcome' = [outcome EXCEPT ![i] = r.value]
         /\ UNCHANGED mapError
    ELSE /\ workers' = [workers EXCEPT ![w] = IdleWorker]
         /\ mapError' = IF mapError = None THEN r ELSE mapError
         /\ UNCHANGED outcome

\* a pool worker takes its next row and runs create_single_task up to the
\* remote call (lines 50-92) or to its end through the handler
WorkerStartRow(w) ==
    /\ pc = "map"
    /\ workers[w].pc = "idle"
    /\ workers[w].chunk # <<>> \/ taskqueue # <<>>
    /\ LET fromQueue == workers[w].chunk = <<>>
           ch == IF fromQueue THEN Head(taskqueue) ELSE workers[w].chunk
           i  == Head(ch)
       IN  /\ taskqueue' = IF fromQueue THEN Dequeue(taskqueue) ELSE taskqueue
           /\ handledBy' = [handledBy EXCEPT ![i] = @ \cup {w}]
           /\ \E setupOk \in BOOLEAN, cell \in LabelCells :
                LET r == RowPrelude(setupOk, cell, i)
                IN  /\ injected' = [injected EXCEPT ![i] = FaultOf(setupOk, cell)]
                    /\ IF r.kind = "call"
                       THEN /\ workers' = [workers EXCEPT ![w] =
                                   [pc |-> "creating", chunk |-> ch,
                                    req |-> r.req, task |-> 0]]
                            /\ calls' = [calls EXCEPT ![i] = @ + 1]
                            /\ sincePause' = [sincePause EXCEPT ![w] = @ + 1]
                            /\ UNCHANGED <<outcome, mapError>>
                       ELSE /\ RowEnds(w, ch, i, r)
                            /\ UNCHANGED <<calls, sincePause>>
    /\ UNCHANGED <<inputVars, pc, num_processes, results, main,
                   fileVars, buildVars>>

\* the remote create call returns a task or raises (lines 88-94, 103-105)
CreateReturns(w) ==
    /\ pc = "map"
    /\ workers[w].pc = "creating"
    /\ LET ch == workers[w].chunk
           i  == Head(ch)
       IN  \E callOk \in BOOLEAN :
             IF callOk
             THEN /\ workers' = [workers EXCEPT ![w].pc = "sleeping",
                                                ![w].req = None,
                                                ![w].task = TaskIdFor(i)]
                  /\ UNCHANGED <<outcome, mapError, injected>>
             ELSE /\ RowEnds(w, ch, i, CreateFailed(i))
                  /\ injected' = [injected EXCEPT ![i] = "create"]
    /\ UNCHANGED <<inputVars, pc, num_processes, taskqueue, results, main,
                   calls, handledBy, sincePause, fileVars, buildVars>>

\* time.sleep(1) ends and create_single_task returns the success dict
\* (lines 99-101)
SleepDone(w) ==
    /\ pc = "map"
    /\ workers[w].pc = "sleeping"
    /\ LET ch == workers[w].chunk
           i  == Head(ch)
       IN  /\ RowEnds(w, ch, i, Return(Success(IdOf(i), workers[w].task)))
           /\ sincePause' = [sincePause EXCEPT ![w] = 0]
    /\ UNCHANGED <<inputVars, pc, num_processes, taskqueue, results,
                   main, calls, handledBy, injected, fileVars, buildVars>>

\* ------------------------------------------------------------- reporting
\* the map taken to be over as soon as every chunk has been handed out
AllChunksDone_Dispatched == taskqueue = <<>>

AllChunksDone ==
    /\ taskqueue = <<>>
    /\ \A w \in DOMAIN workers : workers[w].pc = "idle" /\ workers[w].chunk = <<>>

\* pool.map returns the list of outcomes, or re-raises a worker's exception,
\* once every chunk is done; the with-block then terminates the pool
MapReturns ==
    /\ pc = "map"
    /\ AllChunksDone
    /\ workers' = <<>>
    /\ IF mapError # None
       THEN pc' = "raised" /\ UNCHANGED results
       ELSE /\ results' = [i \in 1..nrows |-> outcome[i]]
            /\ pc' = "report_success"
    /\ UNCHANGED <<inputVars, num_processes, taskqueue, mapError, outcome, main,
                   calls, histVars, fileVars, buildVars>>

IsSuccess(r) == r.success
\* every outcome taken for a failure
IsFailure_Any(r) == TRUE

IsFailure(r) == ~r.success
successes == SelectSeq(results, IsSuccess)
failures  == SelectSeq(results, IsFailure)

TaskUrl(tid) == <<"https://app.cvat.ai/tasks/", ToString(tid)>>

SuccessRow(s) == [TaskID |-> ToString(s.task_id), TaskURL |-> TaskUrl(s.task_id)]

SuccessCsv(ss) ==
    [header |-> <<"Task ID", "Task URL">>,
     rows   |-> [k \in 1..Len(ss) |-> SuccessRow(ss[k])]]

\* failure.get('error', 'Unknown error')
ErrorOf(f) == IF "error" \in DOMAIN f THEN f.error ELSE <<"Unknown error">>

FailureLine(f) == <<"ID: ", f.id, ", Error: ">> \o ErrorOf(f) \o <<"\n">>

FailureLog(fs) == [lines |-> [k \in 1..Len(fs) |-> FailureLine(fs[k])]]

WriteEvent(artifact, ok) == [by |-> "coordinator", artifact |-> artifact, ok |-> ok]

\* lines 133-144; an OSError leaves the try block through line 154-156
WriteSuccessReport ==
    /\ pc = "report_success"
    /\ IF successes = <<>>
       THEN pc' = "report_failure" /\ UNCHANGED <<successFile, writeLog>>
       ELSE \E writeOk \in BOOLEAN :
              /\ writeLog' = Append(writeLog, WriteEvent("success", writeOk))
              /\ IF writeOk
                 THEN successFile' = SuccessCsv(successes) /\ pc' = "report_failure"
                 ELSE pc' = "raised" /\ UNCHANGED successFile
    /\ UNCHANGED <<inputVars, num_processes, taskqueue, workers, mapError, outcome,
                   results, main, calls, histVars, failureFile,
                   buildVars>>

\* lines 146-152
WriteFailureReport ==
    /\ pc = "report_failure"
    /\ IF failures = <<>>
       THEN pc' = "done" /\ UNCHANGED <<failureFile, writeLog>>
       ELSE \E writeOk \in BOOLEAN :
              /\ writeLog' = Append(writeLog, WriteEvent("failure", writeOk))
              /\ IF writeOk
                 THEN failureFile' = FailureLog(failures) /\ pc' = "done"
                 ELSE pc' = "raised" /\ UNCHANGED failureFile
    /\ UNCHANGED <<inputVars, num_processes, taskqueue, workers, mapError, outcome,
                   results, main, calls, histVars, successFile,
                   buildVars>>

\* --------------------------------------------------- sequential variant
\* run(), lines 114-119: setup_client, then load_data
SeqStart ==
    /\ variant = "seq" /\ pc = "start"
    /\ \E setupOk \in BOOLEAN :
         pc' = IF setupOk /\ readable THEN "loop" ELSE "raised"
    /\ UNCHANGED <<inputVars, num_processes, taskqueue, workers, mapError, outcome,
                   results, main, calls, histVars, fileVars, buildVars>>

\* create_task up to the remote call (lines 62-103): a KeyError or an
\* AttributeError is re-raised (line 109, or by the handler's own row['ID'])
\* and caught by the loop of run(), which continues (lines 132-134)
SeqPrelude(cell, i) ==
    IF "Labels" \notin columns THEN Propagate(KeyErrorText("Labels"))
    ELSE IF cell.kind # "str" THEN Propagate(AttributeErrorText)
    ELSE IF "ID" \notin columns THEN Propagate(KeyErrorText("ID"))
    ELSE IF "URL" \notin columns THEN Propagate(KeyErrorText("URL"))
    ELSE Call(CreateRequest("seq", i, cell))

SeqStartRow ==
    /\ pc = "loop" /\ main.pc = "idle" /\ main.idx <= nrows
    /\ LET i == main.idx
       IN  /\ handledBy' = [handledBy EXCEPT ![i] = @ \cup {MainPath}]
           /\ \E cell \in LabelCells :
                LET r == SeqPrelude(cell, i)
                IN  /\ injected' = [injected EXCEPT ![i] = FaultOf(TRUE, cell)]
                    /\ IF r.kind = "call"
                       THEN /\ main' = [main EXCEPT !.pc = "creating"]
                            /\ calls' = [calls EXCEPT ![i] = @ + 1]
                            /\ sincePause' = [sincePause EXCEPT ![MainPath] = @ + 1]
                       ELSE /\ main' = [main EXCEPT !.idx = @ + 1]
                            /\ UNCHANGED <<calls, sincePause>>
    /\ UNCHANGED <<inputVars, pc, num_processes, taskqueue, workers, mapError,
                   outcome, results, fileVars, buildVars>>

\* lines 99-109 and 123-134: a task id comes back and the loop goes on to
\* its sleep, or the call raises and the loop continues with the next row
SeqCreateReturns ==
    /\ pc = "loop" /\ main.pc = "creating"
    /\ \E callOk \in BOOLEAN :
         IF callOk
         THEN main' = [main EXCEPT !.pc = "sleeping"] /\ UNCHANGED injected
         ELSE /\ main' = [main EXCEPT !.pc = "idle", !.idx = @ + 1]
              /\ injected' = [injected EXCEPT ![main.idx] = "create"]
    /\ UNCHANGED <<inputVars, pc, num_processes, taskqueue, workers, mapError,
                   outcome, results, calls, handledBy, sincePause, fileVars,
                   buildVars>>

\* line 130
SeqSleepDone ==
    /\ pc = "loop" /\ main.pc = "sleeping"
    /\ main' = [main EXCEPT !.pc = "idle", !.idx = @ + 1]
    /\ sincePause' = [sincePause EXCEPT ![MainPath] = 0]
    /\ UNCHANGED <<inputVars, pc, num_processes, taskqueue, workers, mapError,
                   outcome, results, calls, handledBy, injected, fileVars,
                   buildVars>>

\* line 136
SeqFinish ==
    /\ pc = "loop" /\ main.pc = "idle" /\ main.idx > nrows
    /\ pc' = "done"
    /\ UNCHANGED <<inputVars, num_processes, taskqueue, workers, mapError, outcome,
                   results, main, calls, histVars, fileVars, buildVars>>

Next ==
    \/ LoadAndDispatch
    \/ \E w \in DOMAIN workers : WorkerStartRow(w)
    \/ \E w \in DOMAIN workers : CreateReturns(w)
    \/ \E w \in DOMAIN workers : SleepDone(w)
    \/ MapReturns
    \/ WriteSuccessReport
    \/ WriteFailureReport
    \/ SeqStart
    \/ SeqStartRow
    \/ SeqCreateReturns
    \/ SeqSleepDone
    \/ SeqFinish

Spec == Init /\ [][Next]_vars

\* ------------------------------------------- the payload builder on its own
Alphabet == {"a", "b", " ", ","}

RECURSIVE StringsUpTo(_)
StringsUpTo(n) ==
    IF n = 0 THEN {<<>>}
    ELSE LET shorter == StringsUpTo(n - 1)
         IN  shorter \cup {Append(t, ch) : t \in shorter, ch \in Alphabet}

ExampleLabels == <<"a", ",", " ", "b", " ", ",", "c">>

RawLabelStrings == StringsUpTo(MaxLen) \cup {ExampleLabels}

InitBuild ==
    /\ variant \in {"mp", "seq"}
    /\ readable = TRUE
    /\ columns = RequiredColumns
    /\ nrows = 0
    /\ cpus = 1
    /\ pc = "build"
    /\ num_processes = 0
    /\ taskqueue = <<>>
    /\ workers = <<>>
    /\ mapError = None
    /\ outcome = <<>>
    /\ results = <<>>
    /\ main = [pc |-> "idle", idx |-> 1]
    /\ calls = <<>>
    /\ handledBy = <<>>
    /\ sincePause = [p \in Paths |-> 0]
    /\ injected = <<>>
    /\ successFile = None
    /\ failureFile = None
    /\ writeLog = <<>>
    /\ brec \in [ID : {IdOf(1)}, Labels : RawLabelStrings]
    /\ bout = <<>>

\* lines 54-85 of create_single_task (lines 64-97 of create_task), run on
\* the same record once more
Build ==
    /\ pc = "build"
    /\ Len(bout) < 2
    /\ bout' = Append(bout, BuildTaskSpec(variant, brec.ID, brec.Labels))
    /\ UNCHANGED <<inputVars, pc, num_processes, taskqueue, workers, mapError,
                   outcome, results, main, calls, histVars, fileVars, brec>>

NextBuild == Build

SpecBuild == InitBuild /\ [][NextBuild]_vars

\* ================================================================ claims
Rows == 1..nrows

InFlight ==
    Cardinality({w \in DOMAIN workers : workers[w].pc = "creating"})
    + (IF main.pc = "creating" THEN 1 ELSE 0)

AfterMap == pc \in {"report_success", "report_failure", "done"}
Finished == pc \in {"done", "raised"}

WriteFailed == \E k \in 1..Len(writeLog) : ~writeLog[k].ok
Attempted(artifact) == \E k \in 1..Len(writeLog) : writeLog[k].artifact = artifact

\* C1: in the multiprocess variant, for every input file that loads (here
\* already with its three columns present) and every way a row's processing
\* can raise, run() ends holding exactly one outcome per CSV row: as many
\* outcomes as rows, the i-th being row i's.
C1_OneOutcomePerRow ==
    (variant = "mp" /\ readable /\ columns = RequiredColumns
        /\ (AfterMap \/ Finished)) =>
        /\ Len(results) = nrows
        /\ \A i \in Rows : results[i].id = IdOf(i)

\* the remote create call raised for row K and nothing else went wrong
OnlyCreateFaultAt(K) ==
    /\ injected[K] = "create"
    /\ \A i \in Rows \ {K} : injected[i] \in {"pending", "none"}
    /\ ~WriteFailed

\* C2: fault isolation.  When the remote create call raises for record K (and
\* for no other), the run never raises and is never stuck before it is done;
\* K was submitted once and its outcome is the failure carrying K's id and the
\* error text; once the map is over every other record was submitted and
\* succeeded; and a completed run's failure report is exactly the one line of
\* K.  In the sequential variant the run completes too and every row, the ones
\* after K included, was attempted.
C2_FaultIsolation ==
    \A K \in Rows : OnlyCreateFaultAt(K) =>
        /\ pc # "raised"
        /\ pc # "done" => ENABLED Next
        /\ calls[K] = 1
        /\ variant = "mp" =>
             /\ mapError = None
             /\ outcome[K] = Failure(IdOf(K), <<"remote create failed">>)
             /\ AfterMap =>
                  \A i \in Rows \ {K} :
                      calls[i] = 1 /\ results[i] = Success(IdOf(i), TaskIdFor(i))
             /\ pc = "done" =>
                  failureFile =
                      [lines |-> << <<"ID: ", IdOf(K), ", Error: ",
                                      "remote create failed", "\n">> >>]
        /\ (variant = "seq" /\ pc = "done") =>
             \A i \in Rows : handledBy[i] = {MainPath} /\ calls[i] = 1

\* the three-row scenario: the second row's submission fails, the first and
\* the third succeed, both reports are written
C2_Witness ==
    /\ variant = "mp" /\ pc = "done" /\ nrows = 3
    /\ OnlyCreateFaultAt(2)
    /\ Len(failureFile.lines) = 1
    /\ Len(successFile.rows) = 2

\* C3: the two report writes are independent and best-effort: a failed write
\* of either artifact does not make run() raise, and after a failed write of
\* the success report the failure report is still attempted.
C3_BestEffortWrites ==
    WriteFailed =>
        /\ pc # "raised"
        /\ (Finished /\ failures # <<>>) => Attempted("failure")

\* C4: at most num_processes remote create calls are in flight, and
\* num_processes is min(available CPUs, 4); the sequential loop has at most one
\* call in flight.
C4_ConcurrencyBound ==
    /\ (variant = "mp" /\ pc # "start" /\ readable) =>
          /\ num_processes <= cpus
          /\ num_processes <= 4
          /\ num_processes = cpus \/ num_processes = 4
          /\ InFlight <= num_processes
    /\ variant = "seq" => InFlight <= 1

\* more rows than workers, every worker with a call in flight
C4_Witness ==
    /\ variant = "mp"
    /\ num_processes >= 2
    /\ nrows > num_processes
    /\ InFlight = num_processes
    /\ taskqueue # <<>>

\* C5: if the CSV cannot be opened, or one of the columns ID, URL, Labels is
\* absent, the run fails before any worker is started (or any row is looped
\* over), no remote create call is made and no report artifact is written.
C5_InputErrorsFatal ==
    (~readable \/ columns # RequiredColumns) =>
        /\ pc \in {"start", "raised"}
        /\ num_processes = 0
        /\ \A i \in Rows : calls[i] = 0 /\ handledBy[i] = {}
        /\ successFile = None /\ failureFile = None

IdInSuccessReport(id) ==
    /\ successFile # None
    /\ \/ id \in Range(successFile.header)
       \/ \E k \in 1..Len(successFile.rows) :
            \/ successFile.rows[k].TaskID = id
            \/ id \in Range(successFile.rows[k].TaskURL)

IdInFailureReport(id) ==
    /\ failureFile # None
    /\ \E k \in 1..Len(failureFile.lines) : id \in Range(failureFile.lines[k])

SuccessRowsFor(i) ==
    {k \in 1..Len(successFile.rows) :
        successFile.rows[k] =
            [TaskID  |-> ToString(results[i].task_id),
             TaskURL |-> <<"https://app.cvat.ai/tasks/",
                           ToString(results[i].task_id)>>]}

FailureLinesFor(i) ==
    {k \in 1..Len(failureFile.lines) :
        /\ Len(failureFile.lines[k]) >= 3
        /\ SubSeq(failureFile.lines[k], 1, 3) = <<"ID: ", IdOf(i), ", Error: ">>}

C7_Throttle == \A p \in Paths : sincePause[p] <= 1

CountWrites(artifact) ==
    Cardinality({k \in 1..Len(writeLog) : writeLog[k].artifact = artifact})

\* C8: the coordinator reaches its report stage, and a report is written,
\* only after every record has its terminal outcome and every worker has
\* finished (the map has returned and the pool is gone); each report is
\* written at most once per run, and only by the coordinating process; the
\* sequential variant writes no report.
C8_ReportsAfterWorkers ==
    /\ \A k \in 1..Len(writeLog) : writeLog[k].by = "coordinator"
    /\ CountWrites("success") <= 1
    /\ CountWrites("failure") <= 1
    /\ variant = "seq" =>
          writeLog = <<>> /\ successFile = None /\ failureFile = None
    /\ (variant = "mp" /\ (AfterMap \/ writeLog # <<>>)) =>
          /\ pc \in {"report_success", "report_failure", "done", "raised"}
          /\ workers = <<>> /\ taskqueue = <<>>
          /\ Len(results) = nrows
          /\ \A i \in Rows : outcome[i] # None /\ results[i] = outcome[i]
    /\ (successFile # None) => Attempted("success")
    /\ (failureFile # None) => Attempted("failure")

C8_Witness ==
    /\ pc = "done" /\ nrows >= 2
    /\ successFile # None /\ failureFile # None
    /\ Len(writeLog) = 2

\* C9: the remote create call is invoked at most once per record, a record
\* whose call raised is not resubmitted, no record is handled by two workers,
\* and every record that has an outcome, and every record of a completed
\* run, was handled by exactly one.
C9_SingleAttempt ==
    \A i \in Rows :
        /\ calls[i] <= 1
        /\ Cardinality(handledBy[i]) <= 1
        /\ injected[i] = "create" => calls[i] = 1
        /\ (outcome[i] # None \/ pc = "done") => Cardinality(handledBy[i]) = 1

\* a completed run in which a call raised and two workers shared the rows
C9_Witness ==
    /\ variant = "mp" /\ pc = "done"
    /\ \E i \in Rows : injected[i] = "create" /\ calls[i] = 1
    /\ \E i, j \in Rows : handledBy[i] # handledBy[j]

\* ---- the raw label string seen independently of Split and Strip
CommaAt(raw) == {k \in 1..Len(raw) : raw[k] = ","}

\* the k-th comma position; 0 before the first, Len + 1 after the last
Boundary(raw, k) ==
    IF k = 0 THEN 0
    ELSE IF k > Cardinality(CommaAt(raw)) THEN Len(raw) + 1
    ELSE CHOOSE x \in CommaAt(raw) :
             Cardinality({y \in CommaAt(raw) : y < x}) = k - 1

Token(raw, j) == SubSeq(raw, Boundary(raw, j - 1) + 1, Boundary(raw, j) - 1)

IsBlank(t) == \A k \in 1..Len(t) : t[k] \in {" ", "\t"}

\* x is t without its leading and trailing blanks
IsTrimOf(x, t) ==
    /\ x = <<>> \/ (x[1] \notin {" ", "\t"} /\ x[Len(x)] \notin {" ", "\t"})
    /\ \E a \in 0..Len(t) :
         /\ a + Len(x) <= Len(t)
         /\ IsBlank(SubSeq(t, 1, a))
         /\ SubSeq(t, a + 1, a + Len(x)) = x
         /\ IsBlank(SubSeq(t, a + Len(x) + 1, Len(t)))

IsTextAttribute(a) ==
    /\ DOMAIN a = {"name", "mutable", "input_type", "values", "required"}
    /\ a.input_type = "text"
    /\ a.mutable /\ a.required
    /\ a.values = << <<>> >>

====
